---------------------------- MODULE Spec2Model ----------------------------
(***************************************************************************)
(* Model of strip_recipes.RecipeFile (src/strip_recipes/__init__.py).      *)
(*                                                                         *)
(* A RecipeFile owns a text file handle and an instruction counter.        *)
(* create_file() opens the file for writing and writes the header;         *)
(* every builder method checks its arguments with assert statements,       *)
(* writes the text of one instruction through the handle (one line,        *)
(* unless a str argument holds line feeds) and advances the counter;       *)
(* close() closes the handle.                                              *)
(*                                                                         *)
(* The variable "file" is the document: the text the file holds once the   *)
(* text written through the handle has reached it (on flush or close),     *)
(* one element per line (each line is terminated by a newline in the       *)
(* file).  Its first "written" lines were written through the current      *)
(* handle; what follows them is text left in the file by a handle that     *)
(* create_file replaced while it was still open.  The variables "calls"    *)
(* and "last" are history variables: they record what the caller did and   *)
(* what the call answered.                                                 *)
(***************************************************************************)
EXTENDS Integers, Sequences, FiniteSets, TLC

(***************************************************************************)
(* Bounds of the model.                                                    *)
(***************************************************************************)
\* Spec calls a builder while the recipe has fewer instruction lines
MaxOps == 2
\* largest small number offered as an argument by SpecArgs
MaxNum == 3

(***************************************************************************)
(* Python values.  A value carries its type tag t; n is the number of an   *)
(* int or bool (True = 1, False = 0) and the number of HALVES of a float   *)
(* (so that every float of the model is exactly representable and float    *)
(* arithmetic is exact); s is the character sequence of a str.             *)
(***************************************************************************)
PyInt(i)   == [t |-> "int",      n |-> i, s |-> << >>]
PyFloat(h) == [t |-> "float",    n |-> h, s |-> << >>]
PyBool(b)  == [t |-> "bool",     n |-> IF b THEN 1 ELSE 0, s |-> << >>]
PyStr(cs)  == [t |-> "str",      n |-> 0, s |-> cs]
PyNone     == [t |-> "NoneType", n |-> 0, s |-> << >>]

\* isinstance(x, T): bool is a subclass of int in Python
IsInstanceInt(x)   == x.t \in {"int", "bool"}
IsInstanceFloat(x) == x.t = "float"
IsInstanceBool(x)  == x.t = "bool"
IsInstanceStr(x)   == x.t = "str"

\* the numeric value of an int, bool or float, in halves
Num(x) == IF x.t = "float" THEN x.n ELSE 2 * x.n

RECURSIVE Join(_)
\* the string made of a sequence of characters
Join(cs) == IF cs = << >> THEN "" ELSE Head(cs) \o Join(Tail(cs))

\* str.upper(), character by character: the ASCII letters
LowerToUpper ==
    [a |-> "A", b |-> "B", c |-> "C", d |-> "D", e |-> "E", f |-> "F",
     g |-> "G", h |-> "H", i |-> "I", j |-> "J", k |-> "K", l |-> "L",
     m |-> "M", n |-> "N", o |-> "O", p |-> "P", q |-> "Q", r |-> "R",
     s |-> "S", t |-> "T", u |-> "U", v |-> "V", w |-> "W", x |-> "X",
     y |-> "Y", z |-> "Z"]
\* the character U+017F (long s).  A module holds no character beyond
\* U+00FF: this one is written as Python's ascii() writes it.  The strings
\* of the model hold no backslash of their own.
LongS == "\\u017f"

\* str.upper() follows Unicode: the upper case of a character can be a
\* character outside ASCII or more than one character
SpecialUpper ==
    [ch \in {"ß", LongS, "é"} |->
        CASE ch = "ß"   -> << "S", "S" >>
          [] ch = LongS -> << "S" >>
          [] ch = "é"   -> << "É" >>]

\* the upper case of one character, as a sequence of characters; digits,
\* punctuation and upper-case letters are left as they are (the characters
\* of the model are ASCII, sharp s, long s and e acute)
UpperChar(ch) ==
    IF ch \in DOMAIN LowerToUpper THEN << LowerToUpper[ch] >>
    ELSE IF ch \in DOMAIN SpecialUpper THEN SpecialUpper[ch]
    ELSE << ch >>

RECURSIVE Upper(_)
Upper(cs) == IF cs = << >> THEN << >>
             ELSE UpperChar(Head(cs)) \o Upper(Tail(cs))

\* str(float) for a float given in halves: 5 -> "2.5", 4 -> "2.0", -1 -> "-0.5"
FloatStr(h) ==
    LET a == IF h < 0 THEN -h ELSE h
    IN  (IF h < 0 THEN "-" ELSE "") \o ToString(a \div 2)
            \o (IF a % 2 = 1 THEN ".5" ELSE ".0")

\* '{0}'.format(x)
Format(x) ==
    CASE x.t = "str"      -> Join(x.s)
      [] x.t = "int"      -> ToString(x.n)
      [] x.t = "float"    -> FloatStr(x.n)
      [] x.t = "bool"     -> (IF x.n = 1 THEN "True" ELSE "False")
      [] x.t = "NoneType" -> "None"

(***************************************************************************)
(* The clock read by create_file and its strftime rendering.               *)
(***************************************************************************)
Clock ==
    { [Y |-> 2017, M |-> 3,  D |-> 9,  h |-> 8,  m |-> 5,  s |-> 0],
      [Y |-> 2017, M |-> 11, D |-> 23, h |-> 17, m |-> 45, s |-> 59] }

Pad2(k) == IF k < 10 THEN "0" \o ToString(k) ELSE ToString(k)

\* now.strftime("%Y-%m-%d %H:%M:%S UTC")
Strftime(now) ==
    ToString(now.Y) \o "-" \o Pad2(now.M) \o "-" \o Pad2(now.D) \o " "
        \o Pad2(now.h) \o ":" \o Pad2(now.m) \o ":" \o Pad2(now.s) \o " UTC"

\* the lines of the text create_file writes
Header(now) ==
    << "", "# Recipe generated on " \o Strftime(now), "", "TESTSET:" >>

HeaderLen == 4

(***************************************************************************)
(* State.                                                                  *)
(***************************************************************************)
VARIABLES
    filehandle,       \* "None", "open" or "closed": self.filehandle
    instruction_idx,  \* self.instruction_idx; IdxNone stands for None
    file,             \* the lines of the document
    written,          \* how many of them were written through
                      \* self.filehandle
    calls,            \* history: the builder calls that returned normally
                      \* since the file was created
    last,             \* history: the latest call and the exception it raised
    with_block        \* the with statement that runs open_recipe, if any:
                      \* where it stands, the exception its body raised,
                      \* the exception it let through, the calls of close
                      \* made by __exit__

vars == << filehandle, instruction_idx, file, written, calls, last, with_block >>

\* the RecipeFile is used directly, not through open_recipe
NoWith == [pc |-> "none", raised |-> "", propagated |-> "", closes |-> 0]

IdxNone == -1

\* the largest polarimeter index
MaxPolId == 48

ERRMSG_FILEHANDLE_NOT_SET ==
    "file has not been created, you must call self.create_file()"

\* the instruction lines of the file: what follows the header
OpLines == IF Len(file) <= HeaderLen THEN << >>
           ELSE SubSeq(file, HeaderLen + 1, Len(file))

\* bool(self.filehandle): a file object is true, open or closed
FilehandleSet == filehandle # "None"

Returned(op, args) == [op |-> op, args |-> args, exc |-> "", msg |-> ""]
Raised(op, args, exc, msg) == [op |-> op, args |-> args, exc |-> exc, msg |-> msg]

\* the call raises: nothing but the history of the outcome changes
Raise(op, args, exc, msg) ==
    /\ last' = Raised(op, args, exc, msg)
    /\ UNCHANGED << filehandle, instruction_idx, file, written, calls >>

(***************************************************************************)
(* Writing.  The file is opened in text mode and encoded in UTF-8; a       *)
(* handle writes at its own position, which starts at 0, so what it        *)
(* writes replaces, byte for byte, the text another handle left there.     *)
(***************************************************************************)
TwoByteChars == { "ß", "é", "É" }

\* the number of characters of s that make up its first character: six
\* for a character written \uXXXX, four for a byte written \xXX
FirstLen(s) ==
    IF Len(s) >= 6 /\ SubSeq(s, 1, 2) = "\\u" THEN 6
    ELSE IF Len(s) >= 4 /\ SubSeq(s, 1, 2) = "\\x" THEN 4
    ELSE 1

\* the number of bytes of the UTF-8 encoding of the first character of s
\* (the characters written \uXXXX are below U+0800)
FirstBytes(s) ==
    IF FirstLen(s) = 6 THEN 2
    ELSE IF FirstLen(s) = 4 THEN 1
    ELSE IF Head(s) \in TwoByteChars THEN 2 ELSE 1

\* the number of bytes of the UTF-8 encoding of a string: one for each
\* of its characters, one more for each two-byte character; a character
\* written \uXXXX is six characters for two bytes, a byte written \xXX
\* four characters for one byte
ByteLen(s) ==
    LET marked == { i \in 1..Len(s) :
                      SubSeq(s, i, i) \in TwoByteChars \cup { "\\" } }
    IN  Len(s)
          + Cardinality({ i \in marked : SubSeq(s, i, i) \in TwoByteChars })
          - 4 * Cardinality({ i \in marked :
                                i < Len(s) /\ SubSeq(s, i, i + 1) = "\\u" })
          - 3 * Cardinality({ i \in marked :
                                i < Len(s) /\ SubSeq(s, i, i + 1) = "\\x" })

\* the second byte of the UTF-8 encoding of a two-byte character, as
\* Python writes a byte that is no character
SecondByte(ch) ==
    CASE ch = "ß"   -> "\\x9f"
      [] ch = "é"   -> "\\xa9"
      [] ch = "É"   -> "\\x89"
      [] ch = LongS -> "\\xbf"

RECURSIVE DropBytes(_, _)
\* what is left of the line s once its first n bytes are replaced
DropBytes(s, n) ==
    IF s = "" \/ n = 0 THEN s
    ELSE LET rest == SubSeq(s, FirstLen(s) + 1, Len(s))
         IN  IF FirstBytes(s) <= n
             THEN DropBytes(rest, n - FirstBytes(s))
             ELSE SecondByte(SubSeq(s, 1, FirstLen(s))) \o rest

RECURSIVE Cut(_, _)
\* what is left of the lines ls once their first n bytes are replaced
\* (every line ends with a newline, one byte)
Cut(ls, n) ==
    IF ls = << >> \/ n = 0 THEN ls
    ELSE LET b == ByteLen(Head(ls)) + 1
         IN  IF b <= n THEN Cut(Tail(ls), n - b)
             ELSE << DropBytes(Head(ls), n) >> \o Tail(ls)

RECURSIVE TextBytes(_)
\* the number of bytes of a text made of the lines ls
TextBytes(ls) ==
    IF ls = << >> THEN 0 ELSE ByteLen(Head(ls)) + 1 + TextBytes(Tail(ls))

\* the places of the line feeds in the string s
NewlineAt(s) == { i \in 1..Len(s) : SubSeq(s, i, i) = "\n" }

RECURSIVE SplitLines(_)
\* the lines of the text s + '\n': every line feed of s ends a line, and
\* so does the one the builder puts after s
SplitLines(s) ==
    IF NewlineAt(s) = {} THEN << s >>
    ELSE LET i == CHOOSE i \in NewlineAt(s) : \A j \in NewlineAt(s) : i <= j
         IN  << SubSeq(s, 1, i - 1) >> \o SplitLines(SubSeq(s, i + 1, Len(s)))

\* self.filehandle.write(text) on an open file whose handle has written
\* the first k lines of f; text is made of the lines ls
FileWrite(f, k, ls) ==
    IF k = Len(f) THEN f \o ls
    ELSE SubSeq(f, 1, k) \o ls \o Cut(SubSeq(f, k + 1, Len(f)), TextBytes(ls))

Init ==
    /\ filehandle = "None"
    /\ instruction_idx = IdxNone
    /\ file = << >>
    /\ written = 0
    /\ calls = << >>
    /\ last = Returned("__init__", << >>)
    /\ with_block = NoWith

(***************************************************************************)
(* create_file and close.                                                  *)
(***************************************************************************)
\* the text the file holds when the new handle starts to write.
\* open(file_name, "wt") empties the file.  The assignment to
\* self.filehandle then drops the handle that was there without closing
\* it: if it is still open, the interpreter finalises it, and the text
\* written through it, still in its buffer, goes to the emptied file
\* (CPython finalises an object when its last reference goes; a recipe of
\* the model is shorter than the buffer of a handle).
Leftover ==
    IF filehandle = "open" THEN SubSeq(file, 1, written) ELSE << >>

\* the counter restarts at 0 and the header is written through the new
\* handle, from the start of the file
create_file ==
    \E now \in Clock :
        /\ filehandle' = "open"
        /\ instruction_idx' = 0
        /\ file' = FileWrite(Leftover, 0, Header(now))
        /\ written' = HeaderLen
        /\ calls' = << >>
        /\ last' = Returned("create_file", << >>)

close ==
    IF filehandle = "None"
    THEN Raise("close", << >>, "AttributeError",
               "'NoneType' object has no attribute 'close'")
    ELSE /\ filehandle' = "closed"
         /\ last' = Returned("close", << >>)
         /\ UNCHANGED << instruction_idx, file, written, calls >>

(***************************************************************************)
(* The builder methods.  Each one is a chain of assert statements, then    *)
(* one write and the increment of the counter.  A write on a closed file   *)
(* raises ValueError.                                                      *)
(***************************************************************************)
\* a tail that writes without regard to the state of the handle
Emit_on_closed(op, args, line, bump) ==
    /\ file' = FileWrite(file, written, SplitLines(line))
    /\ written' = written + Len(SplitLines(line))
    /\ instruction_idx' = instruction_idx + bump
    /\ calls' = Append(calls, [op |-> op, args |-> args])
    /\ last' = Returned(op, args)
    /\ UNCHANGED filehandle

\* the tail common to the builders: write the text, then add `bump` to
\* the counter.  `line` is the formatted text without its final line
\* feed; an argument that holds line feeds makes it several lines of the
\* file
Emit(op, args, line, bump) ==
    IF filehandle = "closed"
    THEN Raise(op, args, "ValueError", "I/O operation on closed file.")
    ELSE /\ file' = FileWrite(file, written, SplitLines(line))
         /\ written' = written + Len(SplitLines(line))
         /\ instruction_idx' = instruction_idx + bump
         /\ calls' = Append(calls, [op |-> op, args |-> args])
         /\ last' = Returned(op, args)
         /\ UNCHANGED filehandle

\* lines 61-71
\* the upper bound of pol_id taken exclusive
load_settings_asserts_excl(file_name, pol_id) ==
    /\ IsInstanceStr(file_name)
    /\ IsInstanceInt(pol_id)
    /\ file_name.s # << >>
    /\ Num(pol_id) >= 0 /\ Num(pol_id) < 2 * MaxPolId

load_settings_asserts(file_name, pol_id) ==
    /\ IsInstanceStr(file_name)
    /\ IsInstanceInt(pol_id)
    /\ file_name.s # << >>
    /\ Num(pol_id) >= 0 /\ Num(pol_id) <= 2 * MaxPolId

load_settings_line(file_name, pol_id) ==
    "LoadSettings\t" \o Format(file_name) \o ", " \o Format(pol_id) \o ";"

load_settings(file_name, pol_id) ==
    IF ~FilehandleSet
    THEN Raise("load_settings", << file_name, pol_id >>,
               "AssertionError", ERRMSG_FILEHANDLE_NOT_SET)
    ELSE IF ~load_settings_asserts(file_name, pol_id)
    THEN Raise("load_settings", << file_name, pol_id >>, "AssertionError", "")
    ELSE Emit("load_settings", << file_name, pol_id >>,
              load_settings_line(file_name, pol_id), 1)

\* lines 81-87
sbs_asserts(status) == IsInstanceBool(status)

\* the status formatted as it comes
status_str_raw(status) == Format(status)

\* status_str = {True: 'ON', False: 'OFF'}
status_str(status) == IF status.n = 1 THEN "ON" ELSE "OFF"

sbs_line(status) == "Sbs\t" \o status_str(status) \o ";"

sbs(status) ==
    IF ~FilehandleSet
    THEN Raise("sbs", << status >>, "AssertionError", ERRMSG_FILEHANDLE_NOT_SET)
    ELSE IF ~sbs_asserts(status)
    THEN Raise("sbs", << status >>, "AssertionError", "")
    ELSE Emit("sbs", << status >>, sbs_line(status), 1)

sbs_on == sbs(PyBool(TRUE))

sbs_off == sbs(PyBool(FALSE))

\* lines 107-113
record_start_asserts(name) ==
    /\ IsInstanceStr(name)
    /\ name.s # << >>

record_start_line(name) == "RecordStart\t" \o Format(name) \o ";"

record_start(name) ==
    IF ~FilehandleSet
    THEN Raise("record_start", << name >>,
               "AssertionError", ERRMSG_FILEHANDLE_NOT_SET)
    ELSE IF ~record_start_asserts(name)
    THEN Raise("record_start", << name >>, "AssertionError", "")
    ELSE Emit("record_start", << name >>, record_start_line(name), 1)

\* lines 118-121
record_stop_line == "RecordStop;"

\* a record_stop without "assert self.filehandle": None has no write
record_stop_no_assert ==
    IF ~FilehandleSet
    THEN Raise("record_stop", << >>, "AttributeError",
               "'NoneType' object has no attribute 'write'")
    ELSE Emit("record_stop", << >>, record_stop_line, 1)

record_stop ==
    IF ~FilehandleSet
    THEN Raise("record_stop", << >>,
               "AssertionError", ERRMSG_FILEHANDLE_NOT_SET)
    ELSE Emit("record_stop", << >>, record_stop_line, 1)

\* lines 126-133
bias_set_asserts(target, value) ==
    /\ IsInstanceStr(target)
    /\ IsInstanceInt(value) \/ IsInstanceFloat(value)

bias_set_line(target, value) ==
    "BiasSet\t" \o Format(target) \o ", " \o Format(value) \o ";"

bias_set(target, value) ==
    IF ~FilehandleSet
    THEN Raise("bias_set", << target, value >>,
               "AssertionError", ERRMSG_FILEHANDLE_NOT_SET)
    ELSE IF ~bias_set_asserts(target, value)
    THEN Raise("bias_set", << target, value >>, "AssertionError", "")
    ELSE Emit("bias_set", << target, value >>, bias_set_line(target, value), 1)

\* lines 146-156
PidTargets == { <<"L","A">>, <<"L","B">>, <<"L","C","R","O","S","S">>,
                <<"L","P","O","L">> }

\* a temperature of zero let through
pid_set_asserts_zero(target, temperature) ==
    /\ IsInstanceStr(target)
    /\ IsInstanceFloat(temperature) \/ IsInstanceInt(temperature)
    /\ Upper(target.s) \in PidTargets
    /\ Num(temperature) >= 0

pid_set_asserts(target, temperature) ==
    /\ IsInstanceStr(target)
    /\ IsInstanceFloat(temperature) \/ IsInstanceInt(temperature)
    /\ Upper(target.s) \in PidTargets
    /\ Num(temperature) > 0

pid_set_line(target, temperature) ==
    "PidSet\t" \o Format(target) \o ", " \o Format(temperature) \o ";"

\* a pid_set without "assert isinstance(target, str)": target.upper()
\* raises AttributeError when target is not a string
pid_set_no_isinstance(target, temperature) ==
    IF ~FilehandleSet
    THEN Raise("pid_set", << target, temperature >>,
               "AssertionError", ERRMSG_FILEHANDLE_NOT_SET)
    ELSE IF ~IsInstanceStr(target)
    THEN Raise("pid_set", << target, temperature >>, "AttributeError",
               "object has no attribute 'upper'")
    ELSE IF ~pid_set_asserts(target, temperature)
    THEN Raise("pid_set", << target, temperature >>, "AssertionError", "")
    ELSE Emit("pid_set", << target, temperature >>,
              pid_set_line(target, temperature), 1)

pid_set(target, temperature) ==
    IF ~FilehandleSet
    THEN Raise("pid_set", << target, temperature >>,
               "AssertionError", ERRMSG_FILEHANDLE_NOT_SET)
    ELSE IF ~pid_set_asserts(target, temperature)
    THEN Raise("pid_set", << target, temperature >>, "AssertionError", "")
    ELSE Emit("pid_set", << target, temperature >>,
              pid_set_line(target, temperature), 1)

\* lines 169-185
\* a step equal to the width of the sweep let through
rf_start_sweep_asserts_le(fmin, fmax, step, dwell, power) ==
    /\ IsInstanceFloat(fmin) \/ IsInstanceInt(fmin)
    /\ IsInstanceFloat(fmax) \/ IsInstanceInt(fmax)
    /\ IsInstanceFloat(step) \/ IsInstanceInt(step)
    /\ IsInstanceFloat(dwell) \/ IsInstanceInt(dwell)
    /\ IsInstanceFloat(power) \/ IsInstanceInt(power)
    /\ Num(fmin) > 0
    /\ Num(step) > 0
    /\ Num(dwell) > 0
    /\ Num(fmin) < Num(fmax)
    /\ Num(step) <= Num(fmax) - Num(fmin)

rf_start_sweep_asserts(fmin, fmax, step, dwell, power) ==
    /\ IsInstanceFloat(fmin) \/ IsInstanceInt(fmin)
    /\ IsInstanceFloat(fmax) \/ IsInstanceInt(fmax)
    /\ IsInstanceFloat(step) \/ IsInstanceInt(step)
    /\ IsInstanceFloat(dwell) \/ IsInstanceInt(dwell)
    /\ IsInstanceFloat(power) \/ IsInstanceInt(power)
    /\ Num(fmin) > 0
    /\ Num(step) > 0
    /\ Num(dwell) > 0
    /\ Num(fmin) < Num(fmax)
    /\ Num(step) < Num(fmax) - Num(fmin)

rf_start_sweep_line(fmin, fmax, step, dwell, power) ==
    "RfStartSweep\t" \o Format(fmin) \o ", " \o Format(fmax) \o ", "
        \o Format(step) \o ", " \o Format(dwell) \o ", " \o Format(power) \o ";"

rf_start_sweep(fmin, fmax, step, dwell, power) ==
    IF ~FilehandleSet
    THEN Raise("rf_start_sweep", << fmin, fmax, step, dwell, power >>,
               "AssertionError", ERRMSG_FILEHANDLE_NOT_SET)
    ELSE IF ~rf_start_sweep_asserts(fmin, fmax, step, dwell, power)
    THEN Raise("rf_start_sweep", << fmin, fmax, step, dwell, power >>,
               "AssertionError", "")
    ELSE Emit("rf_start_sweep", << fmin, fmax, step, dwell, power >>,
              rf_start_sweep_line(fmin, fmax, step, dwell, power), 1)

\* lines 196-206: the instruction counter is not advanced
rf_cw_asserts(status, freq, power) ==
    /\ IsInstanceBool(status)
    /\ IsInstanceFloat(freq) \/ IsInstanceInt(freq)
    /\ IsInstanceFloat(power) \/ IsInstanceInt(power)
    /\ Num(freq) > 0

rf_cw_line(status, freq, power) ==
    "RfCw\t" \o status_str(status) \o ", " \o Format(freq) \o ", "
        \o Format(power) \o ";"

rf_cw(status, freq, power) ==
    IF ~FilehandleSet
    THEN Raise("rf_cw", << status, freq, power >>,
               "AssertionError", ERRMSG_FILEHANDLE_NOT_SET)
    ELSE IF ~rf_cw_asserts(status, freq, power)
    THEN Raise("rf_cw", << status, freq, power >>, "AssertionError", "")
    ELSE Emit("rf_cw", << status, freq, power >>,
              rf_cw_line(status, freq, power), 0)

\* lines 211-218
wait_asserts(time) ==
    /\ IsInstanceFloat(time) \/ IsInstanceInt(time)
    /\ Num(time) >= 0

wait_line(time) == "Wait\t" \o Format(time) \o ";"

\* a wait that writes its line before it checks time >= 0.0
wait_write_first(time) ==
    IF ~FilehandleSet
    THEN Raise("wait", << time >>, "AssertionError", ERRMSG_FILEHANDLE_NOT_SET)
    ELSE IF ~(IsInstanceFloat(time) \/ IsInstanceInt(time))
    THEN Raise("wait", << time >>, "AssertionError", "")
    ELSE IF filehandle = "closed"
    THEN Raise("wait", << time >>, "ValueError", "I/O operation on closed file.")
    ELSE IF ~(Num(time) >= 0)
    THEN /\ file' = FileWrite(file, written, SplitLines(wait_line(time)))
         /\ written' = written + Len(SplitLines(wait_line(time)))
         /\ last' = Raised("wait", << time >>, "AssertionError", "")
         /\ UNCHANGED << filehandle, instruction_idx, calls >>
    ELSE Emit("wait", << time >>, wait_line(time), 1)

wait(time) ==
    IF ~FilehandleSet
    THEN Raise("wait", << time >>, "AssertionError", ERRMSG_FILEHANDLE_NOT_SET)
    ELSE IF ~wait_asserts(time)
    THEN Raise("wait", << time >>, "AssertionError", "")
    ELSE Emit("wait", << time >>, wait_line(time), 1)

(***************************************************************************)
(* Arguments offered by Spec: a few representatives for every builder,     *)
(* right and wrong.                                                        *)
(***************************************************************************)
StrCal   == PyStr(<<"c","a","l",".","t","x","t">>)
StrEmpty == PyStr(<< >>)
StrTSYS  == PyStr(<<"T","S","Y","S">>)
StrVg    == PyStr(<<"H","A","1","_","V","g">>)
StrLA    == PyStr(<<"L","A">>)
StrLb    == PyStr(<<"l","b">>)
StrLcross == PyStr(<<"L","c","r","o","s","s">>)
StrLpol  == PyStr(<<"l","P","o","L">>)
StrLZ    == PyStr(<<"L","Z">>)
StrLAX   == PyStr(<<"L","A","X">>)
StrLcroSharpS == PyStr(<<"L","C","R","O","ß">>)
StrLcroLongS  == PyStr(<<"l","c","r","o",LongS,LongS>>)
StrLAcute     == PyStr(<<"l","é">>)
StrAB      == PyStr(<<"a","\n","b">>)
StrNewline == PyStr(<<"\n">>)
StrMarker  == PyStr(<<"a","\n","T","E","S","T","S","E","T",":","\n","b">>)

FileNames    == { StrCal, StrEmpty }
PolIds       == { PyInt(0), PyInt(MaxPolId + 1) }
Statuses     == { PyBool(TRUE), PyBool(FALSE), PyInt(1) }
Names        == { StrTSYS, StrEmpty, StrMarker }
BiasTargets  == { StrVg }
BiasValues   == { PyFloat(41), StrVg }
PidNames     == { StrLcross, StrLZ, PyInt(7) }
Temperatures == { PyInt(20), PyInt(0) }
SweepFmin    == { PyInt(1), PyInt(10) }
SweepFmax    == { PyInt(5) }
SweepStep    == { PyInt(1), PyInt(4) }
SweepDwell   == { PyFloat(1) }
SweepPower   == { PyInt(-1) }
CwFreqs      == { PyInt(0), PyFloat(21) }
CwPowers     == { PyInt(-1) }
WaitTimes    == { PyInt(-1), PyInt(5), PyFloat(5) }

\* Spec explores recipes of at most MaxOps instruction lines
Room == Len(OpLines) < MaxOps

call_load_settings ==
    Room /\ \E file_name \in FileNames, pol_id \in PolIds :
                load_settings(file_name, pol_id)
call_sbs_on == Room /\ sbs_on
call_sbs_off == Room /\ sbs_off
call_sbs == Room /\ \E status \in Statuses : sbs(status)
call_record_start == Room /\ \E name \in Names : record_start(name)
call_record_stop == Room /\ record_stop
call_bias_set ==
    Room /\ \E target \in BiasTargets, value \in BiasValues :
                bias_set(target, value)
call_pid_set ==
    Room /\ \E target \in PidNames, temperature \in Temperatures :
                pid_set(target, temperature)
call_rf_start_sweep ==
    Room /\ \E fmin \in SweepFmin, fmax \in SweepFmax, step \in SweepStep,
               dwell \in SweepDwell, power \in SweepPower :
                rf_start_sweep(fmin, fmax, step, dwell, power)
call_rf_cw ==
    Room /\ \E status \in Statuses, freq \in CwFreqs, power \in CwPowers :
                rf_cw(status, freq, power)
call_wait == Room /\ \E time \in WaitTimes : wait(time)

\* the caller asks for write_to_file, as the tests and the examples of the
\* repository do: RecipeFile has no such attribute
write_to_file(comment_lines) ==
    Raise("write_to_file", << comment_lines >>, "AttributeError",
          "'RecipeFile' object has no attribute 'write_to_file'")

StrHello == PyStr(<<"H","e","l","l","o",","," ","w","o","r","l","d","!">>)

\* the comment handed to write_to_file; PyNone when there is none
Comments == { PyNone, StrEmpty, StrHello }

Next ==
    \/ create_file /\ UNCHANGED with_block
    \/ close /\ UNCHANGED with_block
    \/ call_load_settings /\ UNCHANGED with_block
    \/ call_sbs_on /\ UNCHANGED with_block
    \/ call_sbs_off /\ UNCHANGED with_block
    \/ call_sbs /\ UNCHANGED with_block
    \/ call_record_start /\ UNCHANGED with_block
    \/ call_record_stop /\ UNCHANGED with_block
    \/ call_bias_set /\ UNCHANGED with_block
    \/ call_pid_set /\ UNCHANGED with_block
    \/ call_rf_start_sweep /\ UNCHANGED with_block
    \/ call_rf_cw /\ UNCHANGED with_block
    \/ call_wait /\ UNCHANGED with_block
    \/ \E comment_lines \in Comments :
           write_to_file(comment_lines) /\ UNCHANGED with_block

Spec == Init /\ [][Next]_vars

(***************************************************************************)
(* SpecArgs: one builder call on a recipe that holds no instruction yet    *)
(* (not created, just created, or created and closed), with arguments      *)
(* drawn from wider sets.                                                  *)
(***************************************************************************)
StrX == PyStr(<<"x">>)

\* ints -1..MaxNum, the floats 0.5 and MaxNum - 0.5, True, a string
SmallValues ==
    { PyInt(i) : i \in -1..MaxNum }
        \cup { PyFloat(1), PyFloat(2 * MaxNum - 1), PyBool(TRUE), StrX }

AnyValues ==
    SmallValues \cup { PyFloat(0), PyFloat(-1), PyBool(FALSE), PyNone, StrEmpty }

WidePolIds ==
    AnyValues \cup { PyInt(MaxPolId - 1), PyInt(MaxPolId), PyInt(MaxPolId + 1),
                     PyFloat(2 * MaxPolId) }

WideNames ==
    { StrCal, StrEmpty, StrTSYS, StrAB, StrNewline, StrMarker,
      PyInt(1), PyNone, PyBool(TRUE) }

WidePidNames ==
    { StrLA, StrLb, StrLcross, StrLpol, StrLZ, StrLAX, StrEmpty,
      PyStr(<<"L">>), PyStr(<<"L","B">>), PyStr(<<"l","c","r","o","s","s">>),
      PyStr(<<"L","P","O","L">>), StrLcroSharpS, StrLcroLongS, StrLAcute,
      PyInt(1), PyNone }

LifecycleOps == { "__init__", "create_file", "close" }

Fresh == calls = << >> /\ Len(file) <= HeaderLen /\ last.op \in LifecycleOps

NextArgs ==
    \/ create_file /\ UNCHANGED with_block
    \/ close /\ UNCHANGED with_block
    \/ Fresh /\ UNCHANGED with_block /\ \E file_name \in WideNames, pol_id \in WidePolIds :
           load_settings(file_name, pol_id)
    \/ Fresh /\ UNCHANGED with_block /\ sbs_on
    \/ Fresh /\ UNCHANGED with_block /\ sbs_off
    \/ Fresh /\ UNCHANGED with_block /\ \E status \in AnyValues : sbs(status)
    \/ Fresh /\ UNCHANGED with_block /\ \E name \in WideNames : record_start(name)
    \/ Fresh /\ UNCHANGED with_block /\ record_stop
    \/ Fresh /\ UNCHANGED with_block /\ \E target \in WideNames, value \in AnyValues :
           bias_set(target, value)
    \/ Fresh /\ UNCHANGED with_block /\ \E target \in WidePidNames, temperature \in AnyValues :
           pid_set(target, temperature)
    \/ Fresh /\ UNCHANGED with_block /\ \E fmin \in SmallValues, fmax \in SmallValues, step \in SmallValues,
          dwell \in SmallValues, power \in SmallValues :
           rf_start_sweep(fmin, fmax, step, dwell, power)
    \/ Fresh /\ UNCHANGED with_block /\ \E status \in AnyValues, freq \in AnyValues, power \in AnyValues :
           rf_cw(status, freq, power)
    \/ Fresh /\ UNCHANGED with_block /\ \E time \in AnyValues : wait(time)

SpecArgs == Init /\ [][NextArgs]_vars

(***************************************************************************)
(* SpecWith: the recipe is used through open_recipe in a with statement:   *)
(*     with open_recipe(file_name) as f: <body>                            *)
(* __enter__ runs, then the body (builder calls on f, until one raises,    *)
(* or the body raises an exception of its own, or ends), then __exit__;    *)
(* the exception of the body is raised again after __exit__ unless         *)
(* __exit__ returns a true value.                                          *)
(***************************************************************************)
InitWith ==
    /\ filehandle = "None"
    /\ instruction_idx = IdxNone
    /\ file = << >>
    /\ written = 0
    /\ calls = << >>
    /\ last = Returned("__init__", << >>)
    /\ with_block = [pc |-> "enter", raised |-> "", propagated |-> "",
                     closes |-> 0]

\* open_recipe.__enter__
open_recipe_enter ==
    /\ with_block.pc = "enter"
    /\ create_file
    /\ with_block' = [with_block EXCEPT !.pc = "body"]

BuilderCall ==
    \/ call_load_settings
    \/ call_sbs_on
    \/ call_sbs_off
    \/ call_sbs
    \/ call_record_start
    \/ call_record_stop
    \/ call_bias_set
    \/ call_pid_set
    \/ call_rf_start_sweep
    \/ call_rf_cw
    \/ call_wait

\* a statement of the body calls a builder; an exception ends the body
with_body_call ==
    /\ with_block.pc = "body"
    /\ BuilderCall
    /\ with_block' = IF last'.exc # ""
                     THEN [with_block EXCEPT !.pc = "exit", !.raised = last'.exc]
                     ELSE with_block

\* a statement of the body raises an exception of its own
with_body_raise ==
    /\ with_block.pc = "body"
    /\ with_block' = [with_block EXCEPT !.pc = "exit", !.raised = "KeyError"]
    /\ UNCHANGED << filehandle, instruction_idx, file, written, calls, last >>

\* the body runs to its end
with_body_end ==
    /\ with_block.pc = "body"
    /\ with_block' = [with_block EXCEPT !.pc = "exit"]
    /\ UNCHANGED << filehandle, instruction_idx, file, written, calls, last >>

\* the value __exit__ returns: None, which is false
ExitReturns == FALSE

\* an __exit__ that closes the file only when the body raised nothing
open_recipe_exit_clean_only ==
    /\ with_block.pc = "exit"
    /\ IF with_block.raised = ""
       THEN /\ close
            /\ with_block' = [with_block EXCEPT !.pc = "done",
                                                !.closes = @ + 1]
       ELSE /\ with_block' = [with_block EXCEPT !.pc = "done",
                                                !.propagated = with_block.raised]
            /\ UNCHANGED << filehandle, instruction_idx, file, written, calls, last >>

\* open_recipe.__exit__, and the end of the with statement
open_recipe_exit ==
    /\ with_block.pc = "exit"
    /\ close
    /\ with_block' = [with_block EXCEPT
                         !.pc = "done",
                         !.closes = @ + 1,
                         !.propagated = IF ExitReturns THEN ""
                                        ELSE with_block.raised]

NextWith ==
    \/ open_recipe_enter
    \/ with_body_call
    \/ with_body_raise
    \/ with_body_end
    \/ open_recipe_exit

SpecWith == InitWith /\ [][NextWith]_vars

(***************************************************************************)
(* Vocabulary of the properties.                                           *)
(***************************************************************************)
BuilderOps == { "load_settings", "sbs", "record_start", "record_stop",
                "bias_set", "pid_set", "rf_start_sweep", "rf_cw", "wait" }

\* the assert statements of builder op hold of the arguments a
ArgsValid(op, a) ==
    CASE op = "load_settings"  -> load_settings_asserts(a[1], a[2])
      [] op = "sbs"            -> sbs_asserts(a[1])
      [] op = "record_start"   -> record_start_asserts(a[1])
      [] op = "record_stop"    -> TRUE
      [] op = "bias_set"       -> bias_set_asserts(a[1], a[2])
      [] op = "pid_set"        -> pid_set_asserts(a[1], a[2])
      [] op = "rf_start_sweep" -> rf_start_sweep_asserts(a[1], a[2], a[3], a[4], a[5])
      [] op = "rf_cw"          -> rf_cw_asserts(a[1], a[2], a[3])
      [] op = "wait"           -> wait_asserts(a[1])

\* the line builder op writes for the arguments a
LineOf(op, a) ==
    CASE op = "load_settings"  -> load_settings_line(a[1], a[2])
      [] op = "sbs"            -> sbs_line(a[1])
      [] op = "record_start"   -> record_start_line(a[1])
      [] op = "record_stop"    -> record_stop_line
      [] op = "bias_set"       -> bias_set_line(a[1], a[2])
      [] op = "pid_set"        -> pid_set_line(a[1], a[2])
      [] op = "rf_start_sweep" -> rf_start_sweep_line(a[1], a[2], a[3], a[4], a[5])
      [] op = "rf_cw"          -> rf_cw_line(a[1], a[2], a[3])
      [] op = "wait"           -> wait_line(a[1])

IsPrefix(p, q) == Len(p) <= Len(q) /\ SubSeq(q, 1, Len(p)) = p

RECURSIVE WaitHalves(_)
\* the sum of the arguments of the wait calls of a call sequence, in halves
WaitHalves(cs) ==
    IF cs = << >> THEN 0
    ELSE (IF Head(cs).op = "wait" THEN Num(Head(cs).args[1]) ELSE 0)
             + WaitHalves(Tail(cs))

\* Python's rendering of that sum: a float as soon as one term is a float
WaitSumStr(cs) ==
    IF \E i \in 1..Len(cs) : cs[i].op = "wait" /\ cs[i].args[1].t = "float"
    THEN FloatStr(WaitHalves(cs))
    ELSE ToString(WaitHalves(cs) \div 2)

(***************************************************************************)
(* C1: the operation count the recipe reports (instruction_idx) equals     *)
(* the number of operations appended: every successful builder call of     *)
(* every kind raises the count by exactly one.                             *)
(* Refuted by the code: rf_cw writes its line and leaves the counter.      *)
(***************************************************************************)
C1_CountEqualsAppended ==
    FilehandleSet => instruction_idx = Len(calls)

(***************************************************************************)
(* C2: the instruction lines of the file are exactly the builder calls     *)
(* that returned normally, one line per call, in the order of the calls.   *)
(* Refuted by the code: a create_file on a recipe that is still open       *)
(* leaves the earlier instruction lines in the file, and the lines         *)
(* written afterwards replace them byte for byte.                          *)
(***************************************************************************)
C2_LinesInCallOrder ==
    FilehandleSet =>
        /\ Len(OpLines) = Len(calls)
        /\ \A i \in 1..Len(calls) : OpLines[i] = LineOf(calls[i].op, calls[i].args)

(***************************************************************************)
(* C3: the header of the recipe carries a wait_duration_sec line whose     *)
(* value is the sum of the arguments of the wait calls appended (0 when    *)
(* there is none).                                                         *)
(* Refuted by the code: create_file writes the whole header before any     *)
(* wait is known, and the header has no wait_duration_sec line.            *)
(***************************************************************************)
C3_HeaderWaitDuration ==
    filehandle = "closed" =>
        \E i \in 1..HeaderLen :
            file[i] = "# wait_duration_sec = " \o WaitSumStr(calls)

(***************************************************************************)
(* C4: a builder call whose arguments fail its assertions appends          *)
(* nothing: the file and the counter are what they were before the call.   *)
(***************************************************************************)
C4_FailedValidationAppendsNothing ==
    [][ (last'.op \in BuilderOps /\ ~ArgsValid(last'.op, last'.args))
            => /\ file' = file
               /\ instruction_idx' = instruction_idx
               /\ calls' = calls ]_vars

\* a call with bad arguments was refused on a recipe that holds instructions
C4_Witness ==
    /\ filehandle = "open"
    /\ Len(OpLines) >= 1
    /\ last.op = "wait"
    /\ last.args = << PyInt(-1) >>
    /\ last.exc = "AssertionError"
    /\ instruction_idx = Len(OpLines)

(***************************************************************************)
(* C5: no call of the API removes or changes an appended operation: the    *)
(* instruction lines before any call are a prefix of the instruction       *)
(* lines after it.                                                         *)
(* Refuted by the code: create_file reopens the file in "wt" mode without  *)
(* closing the handle it replaces; on a closed recipe it empties the       *)
(* file, on an open one the lines stay until later writes replace them.    *)
(***************************************************************************)
C5_Original ==
    [][ IsPrefix(OpLines, OpLines') ]_vars

(***************************************************************************)
(* C6 as stated: every violation of a builder's contract is reported as    *)
(* the error kind InvalidArgument, which identifies the offending          *)
(* parameter.                                                              *)
(* Refuted by the code: the checks are bare assert statements.             *)
(***************************************************************************)
C6_Original ==
    (last.op \in BuilderOps /\ FilehandleSet /\ ~ArgsValid(last.op, last.args))
        => last.exc = "InvalidArgument" /\ last.msg # ""

(***************************************************************************)
(* C6 amended: every violation of a builder's contract is reported as the  *)
(* single error kind AssertionError; the exception carries no message      *)
(* and does not identify the offending parameter.                          *)
(***************************************************************************)
C6_AssertionErrorOnly ==
    (last.op \in BuilderOps /\ FilehandleSet /\ ~ArgsValid(last.op, last.args))
        => last.exc = "AssertionError" /\ last.msg = ""

\* pid_set was refused because its target is not a string
C6_Witness ==
    /\ filehandle = "open"
    /\ last.op = "pid_set"
    /\ ~IsInstanceStr(last.args[1])
    /\ last.exc = "AssertionError"

\* the arguments of a call, as they are displayed: a status as ON or OFF
Shown(op, a) ==
    CASE op = "sbs"   -> << status_str(a[1]) >>
      [] op = "rf_cw" -> << status_str(a[1]), Format(a[2]), Format(a[3]) >>
      [] OTHER        -> [i \in 1..Len(a) |-> Format(a[i])]

RECURSIVE CommaJoin(_)
CommaJoin(ss) ==
    IF ss = << >> THEN ""
    ELSE IF Len(ss) = 1 THEN ss[1]
    ELSE ss[1] \o ", " \o CommaJoin(Tail(ss))

Keyword(op) ==
    CASE op = "load_settings"  -> "LoadSettings"
      [] op = "sbs"            -> "Sbs"
      [] op = "record_start"   -> "RecordStart"
      [] op = "record_stop"    -> "RecordStop"
      [] op = "bias_set"       -> "BiasSet"
      [] op = "pid_set"        -> "PidSet"
      [] op = "rf_start_sweep" -> "RfStartSweep"
      [] op = "rf_cw"          -> "RfCw"
      [] op = "wait"           -> "Wait"

(***************************************************************************)
(* C7: every operation is one line "<kind> <arg0>, <arg1>, ...;": the      *)
(* keyword, one space, the arguments joined by ", ", a semicolon; without  *)
(* arguments the space stays ("RecordStop ;").                             *)
(* Refuted by the code: a tab follows the keyword, and record_stop writes  *)
(* "RecordStop;".                                                          *)
(***************************************************************************)
C7_LineFormat ==
    \A i \in 1..Len(calls) :
        i <= Len(OpLines) =>
            OpLines[i] = Keyword(calls[i].op) \o " "
                             \o CommaJoin(Shown(calls[i].op, calls[i].args)) \o ";"

\* int or float, in Python's sense: a bool is an int
Numeric(x) == x.t \in {"int", "float", "bool"}
Integral(x) == x.t \in {"int", "bool"}

(***************************************************************************)
(* C8: on an open recipe rf_start_sweep(fmin, fmax, step, dwell, power)    *)
(* appends one RfStartSweep line with its five arguments if and only if    *)
(* all five are numeric and fmin > 0, step > 0, dwell > 0, fmin < fmax     *)
(* and step < fmax - fmin; otherwise it fails and appends nothing.         *)
(***************************************************************************)
C8_SweepAcceptedIff ==
    [][ (last'.op = "rf_start_sweep" /\ filehandle = "open") =>
          LET a == last'.args
              ok == /\ \A i \in 1..5 : Numeric(a[i])
                    /\ Num(a[1]) > 0 /\ Num(a[3]) > 0 /\ Num(a[4]) > 0
                    /\ Num(a[1]) < Num(a[2])
                    /\ Num(a[3]) < Num(a[2]) - Num(a[1])
          IN  IF ok
              THEN /\ last'.exc = ""
                   /\ file' = Append(file, "RfStartSweep\t" \o
                                 CommaJoin([i \in 1..5 |-> Format(a[i])]) \o ";")
                   /\ instruction_idx' = instruction_idx + 1
              ELSE /\ last'.exc # ""
                   /\ file' = file
                   /\ instruction_idx' = instruction_idx ]_vars

\* a sweep with a negative power was accepted
C8_Witness ==
    /\ last.op = "rf_start_sweep"
    /\ last.exc = ""
    /\ last.args = << PyInt(1), PyInt(3), PyFloat(1), PyInt(2), PyInt(-1) >>
    /\ OpLines = << "RfStartSweep\t1, 3, 0.5, 2, -1;" >>

(***************************************************************************)
(* C9: on an open recipe load_settings(file_name, pol_id) appends one      *)
(* LoadSettings operation (the counter goes up by one and the text         *)
(* 'LoadSettings\t<file_name>, <pol_id>;' is added to the file, a line     *)
(* more for every line feed of file_name) if and only if file_name is a    *)
(* non-empty string and pol_id is an integer with 0 <= pol_id <= 48;       *)
(* otherwise it fails and the file and the counter stay as they were.      *)
(***************************************************************************)
C9_LoadSettingsAcceptedIff ==
    [][ (last'.op = "load_settings" /\ filehandle = "open") =>
          LET a == last'.args
              ok == /\ a[1].t = "str" /\ Len(a[1].s) > 0
                    /\ Integral(a[2]) /\ a[2].n >= 0 /\ a[2].n <= 48
          IN  IF ok
              THEN /\ last'.exc = ""
                   /\ file' = file \o SplitLines("LoadSettings\t" \o Join(a[1].s)
                                                  \o ", " \o Format(a[2]) \o ";")
                   /\ instruction_idx' = instruction_idx + 1
              ELSE /\ last'.exc # ""
                   /\ file' = file
                   /\ instruction_idx' = instruction_idx ]_vars

\* polarimeter 48 was accepted
C9_Witness ==
    /\ last.op = "load_settings"
    /\ last.exc = ""
    /\ last.args[2] = PyInt(48)
    /\ OpLines = << "LoadSettings\tcal.txt, 48;" >>

(***************************************************************************)
(* C10: on an open recipe pid_set(target, temperature) appends one PidSet  *)
(* line if and only if target, upper-cased, is LA, LB, LCROSS or LPOL and  *)
(* temperature is numeric and > 0; the line carries the target as the      *)
(* caller wrote it.                                                        *)
(***************************************************************************)
C10_PidSetAcceptedIff ==
    [][ (last'.op = "pid_set" /\ filehandle = "open") =>
          LET a == last'.args
              ok == /\ a[1].t = "str"
                    /\ Join(Upper(a[1].s)) \in {"LA", "LB", "LCROSS", "LPOL"}
                    /\ Numeric(a[2]) /\ Num(a[2]) > 0
          IN  IF ok
              THEN /\ last'.exc = ""
                   /\ file' = Append(file, "PidSet\t" \o Join(a[1].s)
                                               \o ", " \o Format(a[2]) \o ";")
                   /\ instruction_idx' = instruction_idx + 1
              ELSE /\ last'.exc # ""
                   /\ file' = file
                   /\ instruction_idx' = instruction_idx ]_vars

\* a target written in mixed case was accepted and written as it came
C10_Witness ==
    /\ last.op = "pid_set"
    /\ last.exc = ""
    /\ last.args[1] = StrLcross
    /\ OpLines = << "PidSet\tLcross, 0.5;" >>

\* the positions of the marker line in the file
MarkerAt == { i \in 1..Len(file) : file[i] = "TESTSET:" }

(***************************************************************************)
(* C11: in every recipe the line "TESTSET:" appears exactly once, after    *)
(* the generated-on line of the header and before every line written by    *)
(* a builder call: it is the last line of the header and no line after     *)
(* the header is the marker.                                               *)
(***************************************************************************)
C11_MarkerOnceBeforeOperations ==
    FilehandleSet =>
        /\ MarkerAt = { HeaderLen }
        /\ \E j \in 1..(HeaderLen - 1) :
              \E now \in Clock :
                  file[j] = "# Recipe generated on " \o Strftime(now)

\* the status calls among the builder calls that returned
StatusCalls == { i \in 1..Len(calls) : calls[i].op \in {"sbs", "rf_cw"} }

BoolTokens == { "True", "False" }

(***************************************************************************)
(* C14 as stated: every Sbs or RfCw line carries ON for a true status and  *)
(* OFF for a false one, and none of its arguments is the token True or     *)
(* False.                                                                  *)
(* Refuted by rf_cw(True, True, 1): a bool is accepted as freq or power    *)
(* and formatted as it is.                                                 *)
(***************************************************************************)
C14_Original ==
    \A i \in StatusCalls :
        LET c == calls[i]
            toks == Shown(c.op, c.args)
        IN  /\ OpLines[i] = Keyword(c.op) \o "\t" \o CommaJoin(toks) \o ";"
            /\ toks[1] = (IF c.args[1] = PyBool(TRUE) THEN "ON" ELSE "OFF")
            /\ \A j \in 1..Len(toks) : toks[j] \notin BoolTokens

(***************************************************************************)
(* C14 amended: every Sbs or RfCw line carries ON for a true status and    *)
(* OFF for a false one as its status argument, never True or False; the    *)
(* frequency and the power of an RfCw line are formatted as given, so one  *)
(* of them is the token True or False exactly when the caller passed a     *)
(* bool there (a bool is accepted as an int).                              *)
(***************************************************************************)
C14_StatusOnOff ==
    \A i \in StatusCalls :
        LET c == calls[i]
            toks == Shown(c.op, c.args)
        IN  /\ OpLines[i] = Keyword(c.op) \o "\t" \o CommaJoin(toks) \o ";"
            /\ c.args[1].t = "bool"
            /\ toks[1] = (IF c.args[1] = PyBool(TRUE) THEN "ON" ELSE "OFF")
            /\ \A j \in 2..Len(toks) :
                  toks[j] \in BoolTokens <=> c.args[j].t = "bool"

\* the generator was switched off with a float frequency
C14_Witness ==
    /\ Len(calls) = 1
    /\ calls[1].op = "rf_cw"
    /\ calls[1].args[1] = PyBool(FALSE)
    /\ OpLines = << "RfCw\tOFF, 0.5, -1;" >>

(***************************************************************************)
(* C15: on a RecipeFile on which create_file was never called every        *)
(* builder call fails with the "file has not been created" assertion,      *)
(* whatever its arguments; nothing is written, and instruction_idx and     *)
(* filehandle stay None.                                                   *)
(***************************************************************************)
C15_BuilderBeforeCreateFails ==
    (filehandle = "None" /\ last.op \in BuilderOps) =>
        /\ last.exc = "AssertionError"
        /\ last.msg = "file has not been created, you must call self.create_file()"
        /\ file = << >>
        /\ calls = << >>
        /\ instruction_idx = IdxNone

\* a sweep with good arguments was refused before create_file
C15_Witness ==
    /\ filehandle = "None"
    /\ last.op = "rf_start_sweep"
    /\ rf_start_sweep_asserts(last.args[1], last.args[2], last.args[3],
                              last.args[4], last.args[5])
    /\ last.exc = "AssertionError"

(***************************************************************************)
(* C17: once close has been called (and until create_file is called        *)
(* again) every builder call fails, adds no line to the file and leaves    *)
(* instruction_idx at the value it had at close.                           *)
(***************************************************************************)
C17_NoInstructionAfterClose ==
    [][ (filehandle = "closed" /\ last'.op \in BuilderOps)
            => /\ last'.exc # ""
               /\ file' = file
               /\ instruction_idx' = instruction_idx
               /\ filehandle' = "closed" ]_vars

\* load_settings with good arguments was refused after close
C17_Witness ==
    /\ filehandle = "closed"
    /\ last.op = "load_settings"
    /\ last.args = << StrCal, PyInt(0) >>
    /\ last.exc = "ValueError"
    /\ instruction_idx = 1
    /\ Len(OpLines) = 1

(***************************************************************************)
(* C12: when a non-empty comment is supplied at serialization its text is  *)
(* written after the header lines and before the "TESTSET:" marker; when   *)
(* no comment is supplied no comment block is written.                     *)
(* Refuted by the code: RecipeFile has no write_to_file and create_file    *)
(* takes no comment; the call that supplies one raises AttributeError      *)
(* and the text is nowhere in the file.                                    *)
(***************************************************************************)
C12_CommentBeforeMarker ==
    (last.op = "write_to_file" /\ last.args[1].t = "str"
                               /\ last.args[1].s # << >>)
        => /\ last.exc = ""
           /\ \E i \in 1..Len(file) :
                 /\ file[i] = "# " \o Join(last.args[1].s)
                 /\ \A k \in MarkerAt : i < k

(***************************************************************************)
(* C13: serializing the same log twice gives the same output but for the   *)
(* timestamp line: a serialization succeeds and leaves the instruction     *)
(* lines and the operation count as they were.                             *)
(* Refuted by the code: write_to_file does not exist, and create_file,     *)
(* the one method that writes the header, resets the count and either      *)
(* empties the file or leaves the old lines to be written over.            *)
(***************************************************************************)
C13_SerializeTwice ==
    [][ (last'.op \in {"write_to_file", "create_file"} /\ FilehandleSet)
            => /\ last'.exc = ""
               /\ OpLines' = OpLines
               /\ instruction_idx' = instruction_idx ]_vars

(***************************************************************************)
(* C16: in a with statement on open_recipe, create_file runs on entry      *)
(* before any builder call of the body; close runs exactly once, on exit,  *)
(* whether the body ends normally or raises; the exception of the body is  *)
(* raised again, not suppressed.                                           *)
(***************************************************************************)
C16_WithCreatesAndCloses ==
    /\ with_block.pc = "enter" =>
          filehandle = "None" /\ last.op = "__init__" /\ with_block.closes = 0
    /\ with_block.pc \in {"body", "exit"} =>
          filehandle = "open" /\ with_block.closes = 0
    /\ last.op \in BuilderOps =>
          last.msg # "file has not been created, you must call self.create_file()"
    /\ with_block.pc = "done" =>
          /\ filehandle = "closed"
          /\ with_block.closes = 1
          /\ with_block.propagated = with_block.raised

\* the body raised on a bad argument after one instruction: the file was
\* closed and the AssertionError came out of the with statement
C16_Witness ==
    /\ with_block.pc = "done"
    /\ with_block.raised = "AssertionError"
    /\ with_block.propagated = "AssertionError"
    /\ with_block.closes = 1
    /\ filehandle = "closed"
    /\ Len(OpLines) = 1

=============================================================================
